---- MODULE Spec2Model ----
(***************************************************************************)
(* A model of kats/models/metalearner/metalearner_predictability.py:       *)
(* the class MetaLearnPredictability, its constructor, _reorganize_data,   *)
(* _validate_data, preprocess, train, pred, pred_by_feature, save_model    *)
(* and load_model.                                                         *)
(*                                                                         *)
(* Numbers that are floats in the source are integers here: forecasting    *)
(* errors and the error threshold are in hundredths (0.2 is 20), sizes,    *)
(* recall thresholds and classifier scores are in percent (0.1 is 10).     *)
(* Precision and recall are exact fractions <<numerator, denominator>>.    *)
(* A feature row is named by the index of the metadata record it came from.*)
(* The classifiers, train_test_split and precision_recall_curve are        *)
(* scikit-learn's; they are modelled by their documented contract.         *)
(***************************************************************************)
EXTENDS Integers, Sequences, FiniteSets, TLC

VARIABLES obj, alive, files, saved, ret, trainLocals, hist

vars == <<obj, alive, files, saved, ret, trainLocals, hist>>

(***************************************************************************)
(* Bounds of the model and constants of the program.                       *)
(***************************************************************************)
\* len(metadata) <= 30 and len(self.features) <= 30 are rejected.
MinRecords == 30
\* The longest metadata list is MinRecords + ExtraRecords records long.
ExtraRecords == 2
\* preprocess is called at most this many times on one feature table.
MaxPreprocess == 2
\* train_test_split's shuffles are drawn from this many rotations.
MaxSeed == 1
\* default of the constructor's threshold (0.2), in hundredths
DefaultThreshold == 20
\* defaults of train's signature
DefaultEstimators == 500
DefaultNeighbors == 5
\* the fallback decision threshold 0.5, in percent
FallbackThreshold == 50

Instances == {"a", "b"}
ModelNames == {"arima", "prophet"}
AttrNames == {"metadata", "threshold", "features", "labels", "features_mean",
              "features_std", "rescale", "clf", "clf_threshold"}

(***************************************************************************)
(* Values.                                                                 *)
(***************************************************************************)
\* Python's None, where a classifier or a float may stand instead.
None == [tag |-> "None"]
Float(x) == [tag |-> "float", val |-> x]

\* metadata=None, where a list of records may stand instead.
NoMetadata == <<"None">>

\* A dict or tuple of Python, as a function; the empty one.
EmptyDict == [k \in {} |-> 0]

\* The value of d[k] is an error of a candidate model (element 1 of the
\* tuple hpt_res[model]).
Hpt(st, val) == [st |-> st, val |-> val]
Rec(h, f, b) == [hpt_res |-> h, features |-> f, best_model |-> b]

\* __dict__ of an instance: the attributes that are set, and their values
\* (an attribute that is not set has the placeholder of EmptyValues).
EmptyValues ==
    [metadata |-> <<>>, threshold |-> 0,
     features |-> [rows |-> <<>>, scaled |-> 0], labels |-> <<>>,
     features_mean |-> [of |-> <<>>], features_std |-> [of |-> <<>>],
     rescale |-> FALSE, clf |-> None, clf_threshold |-> None]
EmptyObject == [attrs |-> {}, v |-> EmptyValues]

HasAttr(d, a) == a \in d.attrs
SetAttr(d, a, x) == [attrs |-> d.attrs \cup {a}, v |-> [d.v EXCEPT ![a] = x]]

(***************************************************************************)
(* Metadata records. A metadata list is a sequence of the names of its     *)
(* records' kinds; KindRec gives the record of a kind.                     *)
(***************************************************************************)
\* hpt_res of a record whose best model "arima" has error e.
Errors(e) == [m \in ModelNames |-> IF m = "arima" THEN e ELSE e + 10]

RecordKinds == {"low", "high", "edge", "lowstr", "hptbad", "hptnokey",
                "featbad", "featnokey", "bestnokey", "bestabsent"}

KindRec(k) ==
    CASE k = "low"        -> Rec(Hpt("dict", Errors(5)), "dict", "arima")
      [] k = "high"       -> Rec(Hpt("dict", Errors(50)), "dict", "arima")
      [] k = "edge"       -> Rec(Hpt("dict", Errors(DefaultThreshold)), "dict", "arima")
      [] k = "lowstr"     -> Rec(Hpt("str", Errors(5)), "str", "arima")
      [] k = "hptbad"     -> Rec(Hpt("badstr", EmptyDict), "dict", "arima")
      [] k = "hptnokey"   -> Rec(Hpt("nokey", EmptyDict), "dict", "arima")
      [] k = "featbad"    -> Rec(Hpt("dict", Errors(50)), "badstr", "arima")
      [] k = "featnokey"  -> Rec(Hpt("dict", Errors(50)), "nokey", "arima")
      [] k = "bestnokey"  -> Rec(Hpt("dict", Errors(50)), "dict", "nokey")
      [] k = "bestabsent" -> Rec(Hpt("dict", Errors(50)), "dict", "theta")

(***************************************************************************)
(* _reorganize_data                                                        *)
(***************************************************************************)
\* ast.literal_eval of a str field, or the field itself: "badstr" is a
\* string that does not parse, "nokey" a record without the key.
FieldRaises(st) == st \in {"nokey", "badstr"}

\* The loop body (lines 105-119) on a record r. It appends the feature row
\* when line 116 is reached, that is when neither hpt_res nor features
\* raised; it appends the error of the best model when line 117 completes.
\* An exception leaves what was appended before it.
AppendsRow(r) == ~FieldRaises(r.hpt_res.st) /\ ~FieldRaises(r.features)
AppendsLabel(r) == AppendsRow(r) /\ r.best_model \in DOMAIN r.hpt_res.val

\* The number of elements of S below x, and the elements of S in order.
Rank(S, x) == Cardinality({y \in S : y < x})
InOrder(S) ==
    LET rk == [x \in S |-> Rank(S, x)]
    IN  [k \in 1..Cardinality(S) |-> CHOOSE x \in S : rk[x] = k - 1]

\* The loop over the records of md, in order: self.features and self.labels
\* at line 119.
ReorgLoop(md) ==
    LET withLabel == InOrder({i \in DOMAIN md : AppendsLabel(KindRec(md[i]))})
    IN  [features |-> InOrder({i \in DOMAIN md : AppendsRow(KindRec(md[i]))}),
         labels |-> [k \in DOMAIN withLabel |->
                        LET r == KindRec(md[withLabel[k]])
                        IN  r.hpt_res.val[r.best_model]]]

\* (np.array(self.labels) > self.threshold).astype(int)
Binarize(errors, threshold) ==
    [k \in 1..Len(errors) |-> IF errors[k] > threshold THEN 1 ELSE 0]

\* np.average / np.std over the rows of the table: a statistic of the rows.
Stats(rows) == [of |-> rows]

\* The attributes _reorganize_data sets on d (d has metadata and threshold).
ReorganizeData(d) ==
    LET acc == ReorgLoop(d.v.metadata)
        d1 == SetAttr(d, "labels", Binarize(acc.labels, d.v.threshold))
        d2 == SetAttr(d1, "features", [rows |-> acc.features, scaled |-> 0])
        d3 == SetAttr(d2, "features_mean", Stats(acc.features))
    IN  SetAttr(d3, "features_std", Stats(acc.features))

Range(s) == {s[k] : k \in DOMAIN s}

(***************************************************************************)
(* _validate_data: the error it raises, or "ok".                           *)
(***************************************************************************)
ValidateData(d) ==
    IF Cardinality(Range(d.v.labels)) = 1 THEN "ValueError"
    ELSE IF Len(d.v.features.rows) <= MinRecords THEN "ValueError"
    ELSE "ok"

(***************************************************************************)
(* __init__                                                                *)
(***************************************************************************)
\* The call's outcome: the object's __dict__ as the constructor leaves it
\* and the error raised ("ok" when none). metadata is a sequence of records
\* or None; emptyStatsRaise says whether np.average raises ZeroDivisionError
\* on a table without rows (it depends on the numpy in use).
InitObject(metadata, threshold, load_model, emptyStatsRaise) ==
    IF load_model THEN [d |-> EmptyObject, status |-> "ok"]
    ELSE IF metadata = NoMetadata
         THEN [d |-> EmptyObject, status |-> "ValueError"]
    ELSE IF Len(metadata) <= MinRecords
         THEN [d |-> EmptyObject, status |-> "ValueError"]
    ELSE IF KindRec(metadata[1]).hpt_res.st = "nokey"
         THEN [d |-> EmptyObject, status |-> "ValueError"]
    ELSE IF KindRec(metadata[1]).features = "nokey"
         THEN [d |-> EmptyObject, status |-> "ValueError"]
    ELSE IF KindRec(metadata[1]).best_model = "nokey"
         THEN [d |-> EmptyObject, status |-> "ValueError"]
    ELSE LET d1 == SetAttr(SetAttr(EmptyObject, "metadata", metadata),
                           "threshold", threshold)
             d2 == ReorganizeData(d1)
         IN  IF d2.v.features.rows = <<>> /\ emptyStatsRaise
             THEN [d |-> SetAttr(SetAttr(d1, "labels", <<>>), "features",
                                 [rows |-> <<>>, scaled |-> 0]),
                   status |-> "ZeroDivisionError"]
             ELSE IF ValidateData(d2) # "ok"
             THEN [d |-> d2, status |-> ValidateData(d2)]
             ELSE [d |-> SetAttr(SetAttr(SetAttr(d2, "rescale", FALSE),
                                         "clf", None),
                                 "clf_threshold", None),
                   status |-> "ok"]

(***************************************************************************)
(* The result of the last call: the operation, the instance, the error     *)
(* raised ("ok" when none), the call's arguments and its return value.     *)
(***************************************************************************)
Ret(op, i, status, arg, val) ==
    [op |-> op, inst |-> i, status |-> status, arg |-> arg, val |-> val]

\* alive[i]: "unborn" before the constructor ran, "live" when it returned,
\* "failed" when it raised (the caller holds no reference then).
Construct(i, metadata, threshold, load_model, emptyStatsRaise) ==
    /\ alive[i] = "unborn"
    /\ \E r \in {InitObject(metadata, threshold, load_model, emptyStatsRaise)} :
       /\ obj' = [obj EXCEPT ![i] = r.d]
       /\ alive' = [alive EXCEPT ![i] = IF r.status = "ok" THEN "live" ELSE "failed"]
       /\ ret' = Ret("__init__", i, r.status,
                     [metadata |-> metadata, threshold |-> threshold,
                      load_model |-> load_model], None)
    /\ trainLocals' = None
    /\ UNCHANGED <<files, saved, hist>>

(***************************************************************************)
(* preprocess                                                              *)
(***************************************************************************)
\* self.rescale is set before self.features is read: on an object without
\* a feature table the flag is set and AttributeError is raised.
PreprocessObject(d) ==
    LET d1 == SetAttr(d, "rescale", TRUE) IN
    IF ~({"features", "features_mean", "features_std"} \subseteq d.attrs)
    THEN [d |-> d1, status |-> "AttributeError"]
    ELSE [d |-> SetAttr(d1, "features",
                        [d.v.features EXCEPT !.scaled = @ + 1]),
          status |-> "ok"]

Preprocess(i) ==
    /\ alive[i] = "live"
    /\ obj[i].v.features.scaled < MaxPreprocess
    /\ \E r \in {PreprocessObject(obj[i])} :
       /\ obj' = [obj EXCEPT ![i] = r.d]
       /\ ret' = Ret("preprocess", i, r.status, None, None)
    /\ trainLocals' = None
    /\ UNCHANGED <<alive, files, saved, hist>>

(***************************************************************************)
(* train                                                                   *)
(***************************************************************************)
DictGet(d, k, default) == IF k \in DOMAIN d THEN d[k] ELSE default
DictSet(d, k, x) == [y \in DOMAIN d \cup {k} |-> IF y = k THEN x ELSE d[y]]

\* An argument of train that has a default in the signature: given or not.
Given(x) == [given |-> TRUE, val |-> x]
Omitted == [given |-> FALSE, val |-> 0]
Bound(a, default) == IF a.given THEN a.val ELSE default

Methods == {"RandomForest", "GBDT", "KNN", "NaiveBayes"}

\* sklearn.model_selection.train_test_split(rows, test_size=k) with an
\* integer k: a shuffle, here the rotation by seed, then the first k rows
\* are the test part. S is the set of row positions that are split.
SplitTest(S, k, seed) ==
    {x \in S : ((Rank(S, x) + Cardinality(S) - (seed % Cardinality(S)))
                    % Cardinality(S)) < k}
\* It raises ValueError unless 0 < k < number of rows.
SplitRaises(S, k) == k <= 0 \/ k >= Cardinality(S)

\* int(n * size), size in percent
IntOfShare(n, size) == (n * size) \div 100

\* The keyword arguments the constructor of a classifier accepts, of those
\* the model passes (any other raises TypeError).
Accepted(method) ==
    CASE method = "RandomForest" -> {"n_estimators", "class_weight"}
      [] method = "KNN"          -> {"n_neighbors"}
      [] OTHER                   -> {}

\* the literal of kwargs.get("n_neighbors", 5)
KnnNeighbors == 5

\* The keyword arguments the classifier is built with (lines 215-225).
ClassifierKwargs(method, kwargs, n_estimators, n_neighbors) ==
    IF method = "NaiveBayes" THEN kwargs
    ELSE IF method = "GBDT" THEN kwargs
    ELSE IF method = "KNN"
    THEN DictSet(kwargs, "n_neighbors", DictGet(kwargs, "n_neighbors", KnnNeighbors))
    ELSE DictSet(DictSet(kwargs, "n_estimators", n_estimators), "class_weight",
                 DictGet(kwargs, "class_weight", "balanced_subsample"))

\* A fitted classifier: what it was built with and fitted on (the rows and
\* how many times they had been standardized).
Classifier(method, params, rows, scaled) ==
    [tag |-> "clf", method |-> method, params |-> params,
     fitRows |-> rows, fitScaled |-> scaled]

(***************************************************************************)
(* sklearn.metrics.precision_recall_curve(y_valid, pred_valid) and the     *)
(* choice of the decision threshold (lines 227-236).                       *)
(***************************************************************************)
RECURSIVE SortedSeq(_)
SortedSeq(S) ==
    IF S = {} THEN <<>>
    ELSE LET m == CHOOSE x \in S : \A y \in S : x <= y
         IN  <<m>> \o SortedSeq(S \ {m})

\* a/b <= c/d, = for fractions with positive denominators
FracLeq(a, b) == a[1] * b[2] <= b[1] * a[2]
FracEq(a, b) == a[1] * b[2] = b[1] * a[2]

\* V: the validation rows; y[x], score[x]: label and class-1 score of row x.
\* thresholds are the distinct scores, increasing; point k of the curve is
\* the precision and recall of "score >= thresholds[k]"; the last point is
\* precision 1, recall 0 and has no threshold. Without a positive row the
\* recall is 1 at every threshold.
PRCurve(V, y, score) ==
    LET thresholds == SortedSeq({score[x] : x \in V})
        m  == Len(thresholds)
        P  == Cardinality({x \in V : y[x] = 1})
        tp(k) == Cardinality({x \in V : score[x] >= thresholds[k] /\ y[x] = 1})
        ps(k) == Cardinality({x \in V : score[x] >= thresholds[k]})
    IN  [p |-> [k \in 1..(m + 1) |-> IF k <= m THEN <<tp(k), ps(k)>> ELSE <<1, 1>>],
         r |-> [k \in 1..(m + 1) |->
                   IF k > m THEN <<0, 1>>
                   ELSE IF P = 0 THEN <<1, 1>> ELSE <<tp(k), P>>],
         thresholds |-> thresholds]

\* r >= recall_threshold (percent)
MeetsRecall(r, recall_threshold) == r[1] * 100 >= recall_threshold * r[2]

\* threshold[np.where(p == np.max(p[r >= recall_threshold]))][-1], or 0.5
\* when that raises: np.max of an empty array raises, and so does indexing
\* threshold with an index of p that threshold does not have.
ChooseThreshold(curve, recall_threshold) ==
    LET n == Len(curve.p)
        Q == {k \in 1..n : MeetsRecall(curve.r[k], recall_threshold)}
    IN  IF Q = {} THEN [val |-> FallbackThreshold, fallback |-> TRUE]
        ELSE LET best == CHOOSE k \in Q :
                            \A j \in Q : FracLeq(curve.p[j], curve.p[k])
                 W == {k \in 1..n : FracEq(curve.p[k], curve.p[best])}
                 last == CHOOSE k \in W : \A j \in W : j <= k
             IN  IF \E k \in W : k > Len(curve.thresholds)
                 THEN [val |-> FallbackThreshold, fallback |-> TRUE]
                 ELSE [val |-> curve.thresholds[last], fallback |-> FALSE]

\* What train does to the object d: the object after the call, the error
\* raised ("ok" when none), the returned mapping (its keys) and the local
\* variables of the call (trainLocals holds them until the next call of any
\* method). a: the arguments; env: what the libraries draw or
\* do (the shuffles' seeds, the validation scores, whether fit raises).
TrainFails(d, status) ==
    [d |-> d, status |-> status, ans |-> {}, locals |-> None]

\* The score of validation row x: by its label and by the half of its rank.
ScoreOf(V, y, x, sc) == sc[<<y[x], (Rank(V, x) \div 2) % 2>>]

TrainObject(d, a, env) ==
    IF a.method \notin Methods THEN TrainFails(d, "ValueError")
    ELSE IF a.valid_size <= 0 \/ a.valid_size >= 100
    THEN TrainFails(d, "ValueError")
    ELSE IF ~({"features", "labels"} \subseteq d.attrs)
    THEN TrainFails(d, "AttributeError")
    ELSE
    LET test_size == IF a.test_size <= 0 \/ a.test_size >= 100
                     THEN 0 ELSE a.test_size
        n == Len(d.v.features.rows)
        all == 1..n
        kv == IntOfShare(n, a.valid_size)
    IN
    IF Len(d.v.labels) # n \/ SplitRaises(all, kv)
    THEN TrainFails(d, "ValueError")
    ELSE
    LET x_valid == SplitTest(all, kv, env.seed1)
        rest == all \ x_valid
        tested == test_size > 0 /\ test_size < 100 - a.valid_size
        kt == IntOfShare(n, test_size)
    IN
    IF tested /\ SplitRaises(rest, kt) THEN TrainFails(d, "ValueError")
    ELSE
    LET x_test == IF tested THEN SplitTest(rest, kt, env.seed2) ELSE {}
        x_train == IF tested THEN rest \ x_test ELSE all
        params == ClassifierKwargs(a.method, a.kwargs,
                                   Bound(a.n_estimators, DefaultEstimators),
                                   Bound(a.n_neighbors, DefaultNeighbors))
    IN
    IF ~(DOMAIN params \subseteq Accepted(a.method))
    THEN TrainFails(d, "TypeError")
    ELSE IF env.fitRaises THEN TrainFails(d, "Exception")
    ELSE
    LET clf == Classifier(a.method, params, x_train, d.v.features.scaled)
        score == [x \in x_valid |-> ScoreOf(x_valid, d.v.labels, x, env.sc)]
        curve == PRCurve(x_valid, d.v.labels, score)
        chosen == ChooseThreshold(curve, a.recall_threshold)
        ans == IF tested THEN {"accuracy", "precision", "recall", "f1"} ELSE {}
    IN  [d |-> SetAttr(SetAttr(d, "clf", clf), "clf_threshold", Float(chosen.val)),
         status |-> "ok",
         ans |-> ans,
         locals |-> [x_train |-> x_train, x_valid |-> x_valid, x_test |-> x_test,
                     tested |-> tested, curve |-> curve,
                     fallback |-> chosen.fallback]]

TrainArgs(method, valid_size, test_size, recall_threshold, n_estimators, n_neighbors, kwargs) ==
    [method |-> method, valid_size |-> valid_size, test_size |-> test_size,
     recall_threshold |-> recall_threshold, n_estimators |-> n_estimators,
     n_neighbors |-> n_neighbors, kwargs |-> kwargs]

TrainEnv(seed1, seed2, sc, fitRaises) ==
    [seed1 |-> seed1, seed2 |-> seed2, sc |-> sc, fitRaises |-> fitRaises]

Train(i, a, env) ==
    /\ alive[i] = "live"
    /\ \E r \in {TrainObject(obj[i], a, env)} :
       /\ obj' = [obj EXCEPT ![i] = r.d]
       /\ ret' = Ret("train", i, r.status, a, r.ans)
       /\ trainLocals' = r.locals
       /\ hist' = [hist EXCEPT ![i] = @ \/ r.status = "ok"]
    /\ UNCHANGED <<alive, files, saved>>

(***************************************************************************)
(* pred_by_feature and pred                                                *)
(***************************************************************************)
\* A feature value is "nan" or a number's name; a row is its one value.
\* x[np.isnan(x)] = 0.0
NanToZero(x) == [k \in DOMAIN x |-> IF x[k] = "nan" THEN "0.0" ELSE x[k]]

\* (x - self.features_mean) / self.features_std of a row, or the row as is.
Standardized(row, mean, std) == [raw |-> row, by |-> [mean |-> mean, std |-> std]]
AsIs(row) == [raw |-> row, by |-> None]

\* (clf.predict_proba(x)[:, 1] < threshold).astype(int) of one row: the value
\* is a function of the classifier, the row and the threshold.
Predict(clf, row, threshold) == [clf |-> clf, row |-> row, below |-> threshold]

PredFails(status) == [status |-> status, val |-> <<>>]

\* kind: the type of source_x; x: its rows.
PredByFeatureResult(d, kind, x) ==
    IF ~HasAttr(d, "clf") THEN PredFails("AttributeError")
    ELSE IF d.v.clf = None THEN PredFails("ValueError")
    ELSE IF kind \notin {"list", "ndarray"} THEN PredFails("UnboundLocalError")
    ELSE IF ~HasAttr(d, "rescale") THEN PredFails("AttributeError")
    ELSE IF d.v.rescale /\ ~({"features_mean", "features_std"} \subseteq d.attrs)
    THEN PredFails("AttributeError")
    ELSE IF ~HasAttr(d, "clf_threshold") THEN PredFails("AttributeError")
    ELSE IF d.v.clf_threshold = None THEN PredFails("TypeError")
    ELSE
    LET x0 == NanToZero(x)
        x1 == [k \in DOMAIN x0 |->
                  IF d.v.rescale
                  THEN Standardized(x0[k], d.v.features_mean, d.v.features_std)
                  ELSE AsIs(x0[k])]
    IN  [status |-> "ok",
         val |-> [k \in DOMAIN x1 |-> Predict(d.v.clf, x1[k], d.v.clf_threshold)]]

PredByFeature(i, kind, x) ==
    /\ alive[i] = "live"
    /\ \E r \in {PredByFeatureResult(obj[i], kind, x)} :
       ret' = Ret("pred_by_feature", i, r.status, [kind |-> kind, x |-> x], r.val)
    /\ trainLocals' = None
    /\ UNCHANGED <<obj, alive, files, saved, hist>>

\* features: what TsFeatures().transform gives for the series.
PredResult(d, features) ==
    IF ~HasAttr(d, "clf") THEN PredFails("AttributeError")
    ELSE IF d.v.clf = None THEN PredFails("ValueError")
    ELSE PredByFeatureResult(d, "list", <<features>>)

Pred(i, features, ts_rescale) ==
    /\ alive[i] = "live"
    /\ \E r \in {PredResult(obj[i], features)} :
       ret' = Ret("pred", i, r.status,
                  [features |-> features, ts_rescale |-> ts_rescale], r.val)
    /\ trainLocals' = None
    /\ UNCHANGED <<obj, alive, files, saved, hist>>

(***************************************************************************)
(* save_model and load_model                                               *)
(***************************************************************************)
Paths == {"m.pkl", "junk.pkl", "/nodir/m.pkl"}
\* joblib.dump raises on a path it cannot write.
Writable(path) == path # "/nodir/m.pkl"

NoFile == [kind |-> "absent", data |-> EmptyDict]
CorruptFile == [kind |-> "corrupt", data |-> EmptyDict]

\* A dump that would lose the standardization flag (not the program's: the
\* round trip of save_model and load_model does not hold with it).
DumpWithoutFlag(d) == [a \in d.attrs \ {"rescale"} |-> d.v[a]]

\* joblib.dump(self.__dict__): the attributes that are set, by name.
Dump(d) == [a \in d.attrs |-> d.v[a]]

\* joblib.load and the assignment to self.__dict__.
Undump(data) ==
    LET get(a) == IF a \in DOMAIN data THEN data[a] ELSE EmptyValues[a] IN
    [attrs |-> DOMAIN data,
     v |-> [metadata |-> get("metadata"), threshold |-> get("threshold"),
            features |-> get("features"), labels |-> get("labels"),
            features_mean |-> get("features_mean"),
            features_std |-> get("features_std"), rescale |-> get("rescale"),
            clf |-> get("clf"), clf_threshold |-> get("clf_threshold")]]

\* The file save_model leaves at path (file: what is there) and its error.
SaveModelFile(d, path, file) ==
    IF ~HasAttr(d, "clf") THEN [file |-> file, status |-> "AttributeError"]
    ELSE IF d.v.clf = None THEN [file |-> file, status |-> "ValueError"]
    ELSE IF ~Writable(path) THEN [file |-> file, status |-> "OSError"]
    ELSE [file |-> [kind |-> "dump", data |-> Dump(d)], status |-> "ok"]

SaveModel(i, path) ==
    /\ alive[i] = "live"
    /\ \E r \in {SaveModelFile(obj[i], path, files[path])} :
       /\ files' = [files EXCEPT ![path] = r.file]
       /\ saved' = [saved EXCEPT ![path] = IF r.status = "ok" THEN obj[i] ELSE @]
       /\ ret' = Ret("save_model", i, r.status, [path |-> path], None)
    /\ trainLocals' = None
    /\ UNCHANGED <<obj, alive, hist>>

\* A load_model that would empty __dict__ before reading the file (not the
\* program's: a failed load would lose the trained model with it).
LoadModelClearsFirst(d, file) ==
    IF file.kind # "dump" THEN [d |-> EmptyObject, status |-> "ValueError"]
    ELSE [d |-> Undump(file.data), status |-> "ok"]

\* The object load_model leaves and its error: any exception of joblib.load
\* is raised again as ValueError.
LoadModelObject(d, file) ==
    IF file.kind # "dump" THEN [d |-> d, status |-> "ValueError"]
    ELSE [d |-> Undump(file.data), status |-> "ok"]

LoadModel(i, path) ==
    /\ alive[i] = "live"
    /\ \E r \in {LoadModelObject(obj[i], files[path])} :
       /\ obj' = [obj EXCEPT ![i] = r.d]
       /\ hist' = [hist EXCEPT ![i] = @ \/ r.status = "ok"]
       /\ ret' = Ret("load_model", i, r.status, [path |-> path], None)
    /\ trainLocals' = None
    /\ UNCHANGED <<alive, files, saved>>

(***************************************************************************)
(* Metadata lists the constructor is given.                                *)
(***************************************************************************)
\* n records: kind kA up to m1, kB up to m2, kC after it.
Pattern(n, kA, kB, kC, m1, m2) ==
    [i \in 1..n |-> IF i <= m1 THEN kA ELSE IF i <= m2 THEN kB ELSE kC]

Lengths == (MinRecords - 1)..(MinRecords + ExtraRecords)

MetadataLists ==
    {NoMetadata} \cup
    {Pattern(n, kA, kB, kC, 1, m2) :
        n \in Lengths, kA \in RecordKinds, kB \in RecordKinds,
        kC \in RecordKinds, m2 \in {2, MinRecords}}

\* 31 records, predictable and unpredictable ones alternating.
GoodMetadata ==
    [i \in 1..(MinRecords + 1) |-> IF i % 2 = 1 THEN "low" ELSE "high"]

(***************************************************************************)
(* Specifications.                                                         *)
(***************************************************************************)
NoCall == Ret("none", "a", "ok", None, None)

Init ==
    /\ obj = [i \in Instances |-> EmptyObject]
    /\ alive = [i \in Instances |-> "unborn"]
    /\ files = [p \in Paths |-> IF p = "junk.pkl" THEN CorruptFile ELSE NoFile]
    /\ saved = [p \in Paths |-> EmptyObject]
    /\ ret = NoCall
    /\ trainLocals = None
    /\ hist = [i \in Instances |-> FALSE]

\* Construction alone, on every metadata list of MetadataLists.
ConstructFromMetadata ==
    \E md \in MetadataLists, raises \in BOOLEAN :
        Construct("a", md, DefaultThreshold, FALSE, raises)

ConstructToLoad ==
    \E md \in {NoMetadata, GoodMetadata} :
        Construct("b", md, DefaultThreshold, TRUE, FALSE)

NextConstruct == ConstructFromMetadata \/ ConstructToLoad

SpecConstruct == Init /\ [][NextConstruct]_vars

(***************************************************************************)
(* The life of two objects: construction, preprocess, train, prediction,   *)
(* save and load, with the default split sizes and one shuffle.            *)
(***************************************************************************)
DefaultArgs ==
    TrainArgs("RandomForest", 10, 10, 70, Omitted, Omitted, EmptyDict)

\* Scores of the validation rows: see ScoreOf.
ScoreLevels == {30, 60}
ScorePatterns == [{0, 1} \X {0, 1} -> ScoreLevels]
\* every unpredictable row scores 60, every predictable row 30
SeparatingScores == [c \in {0, 1} \X {0, 1} |-> IF c[1] = 1 THEN 60 ELSE 30]
\* the score does not depend on the label
MixedScores == [c \in {0, 1} \X {0, 1} |-> IF c[2] = 1 THEN 60 ELSE 30]

FeatureInputs == {<<"nan", "1.5">>}
InputKinds == {"ndarray", "list", "DataFrame", "str"}

\* mlp = MetaLearnPredictability(data); mlp2 = MetaLearnPredictability(load_model=True)
New ==
    \/ Construct("a", GoodMetadata, DefaultThreshold, FALSE, FALSE)
    \/ Construct("b", NoMetadata, DefaultThreshold, TRUE, FALSE)

DoPreprocess == \E i \in Instances : Preprocess(i)

DoTrain ==
    \E i \in Instances,
       a \in {[DefaultArgs EXCEPT !.method = "NaiveBayes"],
              [DefaultArgs EXCEPT !.method = "SVM"],
              [DefaultArgs EXCEPT !.method = "NaiveBayes", !.valid_size = 100]},
       env \in {TrainEnv(0, 0, MixedScores, FALSE),
                TrainEnv(0, 0, MixedScores, TRUE)} :
        Train(i, a, env)

DoPredByFeature ==
    \E i \in Instances, kind \in InputKinds, x \in FeatureInputs :
        PredByFeature(i, kind, x)

DoPred == \E i \in Instances, ts_rescale \in BOOLEAN : Pred(i, "1.5", ts_rescale)

DoSave == \E i \in Instances, path \in {"m.pkl", "/nodir/m.pkl"} : SaveModel(i, path)

DoLoad == \E i \in Instances, path \in Paths : LoadModel(i, path)

Next ==
    \/ New
    \/ DoPreprocess
    \/ DoTrain
    \/ DoPredByFeature
    \/ DoPred
    \/ DoSave
    \/ DoLoad

Spec == Init /\ [][Next]_vars

(***************************************************************************)
(* train alone, on an object constructed from GoodMetadata.                *)
(***************************************************************************)
InitConstructed ==
    /\ obj = [i \in Instances |->
                IF i = "a"
                THEN InitObject(GoodMetadata, DefaultThreshold, FALSE, FALSE).d
                ELSE EmptyObject]
    /\ alive = [i \in Instances |-> IF i = "a" THEN "live" ELSE "unborn"]
    /\ files = [p \in Paths |-> IF p = "junk.pkl" THEN CorruptFile ELSE NoFile]
    /\ saved = [p \in Paths |-> EmptyObject]
    /\ ret = Ret("__init__", "a", "ok",
                 [metadata |-> GoodMetadata, threshold |-> DefaultThreshold,
                  load_model |-> FALSE], None)
    /\ trainLocals = None
    /\ hist = [i \in Instances |-> FALSE]

Seeds == 0..MaxSeed

\* The classifier and its hyperparameters.
TrainWithParams ==
    \E method \in Methods \cup {"SVM"},
       n_estimators \in {Omitted, Given(10), Given(DefaultEstimators)},
       n_neighbors \in {Omitted, Given(3), Given(DefaultNeighbors)},
       kwargs \in {EmptyDict, [k \in {"class_weight"} |-> "balanced"]} :
        Train("a", [DefaultArgs EXCEPT !.method = method,
                                       !.n_estimators = n_estimators,
                                       !.n_neighbors = n_neighbors,
                                       !.kwargs = kwargs],
              TrainEnv(0, 0, SeparatingScores, FALSE))

NextParams == TrainWithParams \/ Preprocess("a")

SpecParams == InitConstructed /\ [][NextParams]_vars

\* The splits.
TrainWithSizes ==
    \E valid_size \in {0, 1, 10, 20, 100},
       test_size \in {-10, 0, 1, 10, 80, 90, 150},
       seed1 \in Seeds, seed2 \in Seeds :
        Train("a", [DefaultArgs EXCEPT !.method = "NaiveBayes",
                                       !.valid_size = valid_size,
                                       !.test_size = test_size],
              TrainEnv(seed1, seed2, SeparatingScores, FALSE))

NextSplit == TrainWithSizes \/ Preprocess("a")

SpecSplit == InitConstructed /\ [][NextSplit]_vars

\* The decision threshold.
TrainWithScores ==
    \E valid_size \in {10, 20}, recall_threshold \in {50, 70, 100, 110},
       seed1 \in Seeds, sc \in ScorePatterns :
        Train("a", [DefaultArgs EXCEPT !.method = "NaiveBayes",
                                       !.valid_size = valid_size,
                                       !.recall_threshold = recall_threshold],
              TrainEnv(seed1, 0, sc, FALSE))

NextThreshold == TrainWithScores \/ Preprocess("a")

SpecThreshold == InitConstructed /\ [][NextThreshold]_vars

(***************************************************************************)
(* Claims about construction.                                              *)
(***************************************************************************)
\* A record is usable when it parses with a feature row and with the error
\* of its best model.
UsableRec(r) ==
    /\ ~FieldRaises(r.hpt_res.st)
    /\ ~FieldRaises(r.features)
    /\ r.best_model \in DOMAIN r.hpt_res.val

UsableIndices(md) ==
    IF md = NoMetadata THEN {} ELSE {k \in DOMAIN md : UsableRec(KindRec(md[k]))}

LabelOf(r, threshold) ==
    IF r.hpt_res.val[r.best_model] > threshold THEN 1 ELSE 0

\* s lists the elements of the set S of indices in increasing order.
IsSortedListOf(s, S) ==
    /\ Len(s) = Cardinality(S)
    /\ Range(s) = S
    /\ \A j, k \in DOMAIN s : j < k => s[j] < s[k]

\* C1: construction from metadata succeeds only if more than 30 records are
\* usable and the labels of the usable records contain both 0 and 1; in
\* every other case it fails with ValueError.
C1_ConstructionValidates ==
    (ret.op = "__init__" /\ ~ret.arg.load_model) =>
        LET md == ret.arg.metadata
            U == UsableIndices(md)
            both == {LabelOf(KindRec(md[k]), ret.arg.threshold) : k \in U} = {0, 1}
        IN  ~(Cardinality(U) > MinRecords /\ both) => ret.status = "ValueError"

\* C3: after _reorganize_data the feature table and the label vector have
\* one entry per usable record, in input order, label k being 1 exactly
\* when the error of the best model of the record of row k exceeds the
\* threshold; a skipped record contributes neither a row nor a label.
C3_RowsAndLabelsAligned ==
    \A i \in Instances :
        LET d == obj[i] IN
        {"features", "labels"} \subseteq d.attrs =>
            /\ Len(d.v.features.rows) = Len(d.v.labels)
            /\ IsSortedListOf(d.v.features.rows, UsableIndices(d.v.metadata))
            /\ \A k \in DOMAIN d.v.labels :
                   k \in DOMAIN d.v.features.rows =>
                       d.v.labels[k] =
                           LabelOf(KindRec(d.v.metadata[d.v.features.rows[k]]),
                                   d.v.threshold)

(***************************************************************************)
(* Claims about train.                                                     *)
(***************************************************************************)
TrainSucceeded == ret.op = "train" /\ ret.status = "ok"

\* C5: the stored decision threshold is a threshold of the curve whose
\* point has recall >= recall_threshold and the largest precision of the
\* points with recall >= recall_threshold; 0.5 is stored only when no point
\* of the curve has recall >= recall_threshold.
C5_ThresholdMaximizesPrecision ==
    TrainSucceeded =>
        LET c == trainLocals.curve
            stored == obj[ret.inst].v.clf_threshold.val
            Q == {k \in DOMAIN c.thresholds :
                     MeetsRecall(c.r[k], ret.arg.recall_threshold)}
        IN  IF trainLocals.fallback
            THEN Q = {} /\ stored = FallbackThreshold
            ELSE \E k \in Q : /\ c.thresholds[k] = stored
                              /\ \A j \in Q : FracLeq(c.p[j], c.p[k])

\* C7: a KNN classifier is built with the caller's n_neighbors (5 when
\* none is given), a random forest with the caller's n_estimators (500 when
\* none is given).
C7_HyperparametersFromCaller ==
    TrainSucceeded =>
        LET clf == obj[ret.inst].v.clf IN
        /\ ret.arg.method = "KNN" =>
               clf.params["n_neighbors"] = Bound(ret.arg.n_neighbors, DefaultNeighbors)
        /\ ret.arg.method = "RandomForest" =>
               clf.params["n_estimators"] = Bound(ret.arg.n_estimators, DefaultEstimators)

\* C9: the rows the classifier is fitted on are disjoint from the validation
\* rows; with a test split, fit, test and validation rows are pairwise
\* disjoint and are all rows; without one, the classifier is fitted on
\* exactly the rows that are not validation rows and the result is empty.
C9_FitRowsDisjointFromValidation ==
    TrainSucceeded =>
        LET fit == obj[ret.inst].v.clf.fitRows
            valid == trainLocals.x_valid
            test == trainLocals.x_test
            all == DOMAIN obj[ret.inst].v.features.rows
        IN  /\ fit \cap valid = {}
            /\ IF trainLocals.tested
               THEN /\ fit \cap test = {}
                    /\ test \cap valid = {}
                    /\ fit \cup test \cup valid = all
               ELSE /\ fit = all \ valid
                    /\ ret.val = {}

(***************************************************************************)
(* Claims about prediction, save and load.                                 *)
(***************************************************************************)
Trained(d) == HasAttr(d, "clf") /\ d.v.clf # None

\* C2: on an instance on which no train and no load_model call succeeded,
\* pred, pred_by_feature and save_model raise ValueError.
C2_UntrainedRaisesValueError ==
    (ret.op \in {"pred", "pred_by_feature", "save_model"} /\ ~hist[ret.inst])
        => ret.status = "ValueError"

\* C4: on a trained model pred_by_feature returns one value per row for an
\* array, a list of arrays and a DataFrame, and raises ValueError for an
\* input of any other type.
C4_InputTypes ==
    (ret.op = "pred_by_feature" /\ Trained(obj[ret.inst])) =>
        IF ret.arg.kind \in {"ndarray", "list", "DataFrame"}
        THEN ret.status = "ok" /\ Len(ret.val) = Len(ret.arg.x)
        ELSE ret.status = "ValueError"

\* How many times the mean/std transform was applied to a predicted row.
Applied(row) == IF row.by = None THEN 0 ELSE 1

\* C8: pred_by_feature standardizes its input if and only if the features
\* the classifier was fitted on were standardized, and as many times.
C8_SameTransformAsAtFit ==
    (ret.op = "pred_by_feature" /\ ret.status = "ok") =>
        \A k \in DOMAIN ret.val :
            Applied(ret.val[k].row) = ret.val[k].clf.fitScaled

\* The attributes a prediction reads.
ModelAttrs == {"clf", "clf_threshold", "rescale", "features_mean", "features_std"}

SameModel(d, e) ==
    \A a \in ModelAttrs : (HasAttr(d, a) <=> HasAttr(e, a)) /\ d.v[a] = e.v[a]

SamePredictions(d, e) ==
    \A kind \in InputKinds, x \in FeatureInputs :
        PredByFeatureResult(d, kind, x) = PredByFeatureResult(e, kind, x)

FailedCall(r) ==
    /\ r.op \in {"train", "pred_by_feature", "save_model", "load_model"}
    /\ r.status # "ok"

\* The classifier or the decision threshold of instance i changes in the step.
ClassifierChanges(i) ==
    \/ obj'[i].v.clf # obj[i].v.clf
    \/ obj'[i].v.clf_threshold # obj[i].v.clf_threshold
    \/ obj'[i].attrs \cap {"clf", "clf_threshold"}
         # obj[i].attrs \cap {"clf", "clf_threshold"}

\* C10: a train, pred_by_feature, save_model or load_model call that fails
\* leaves the instance's attributes as they were, and so its predictions;
\* the classifier and the decision threshold of an instance change only in
\* a train call that completes, which sets both, or a load_model call that
\* succeeds.
C10_FailedCallsKeepState ==
    [][/\ FailedCall(ret') =>
              /\ obj' = obj
              /\ SamePredictions(obj'[ret'.inst], obj[ret'.inst])
       /\ \A i \in Instances :
              (alive[i] = "live" /\ ClassifierChanges(i)) =>
                  /\ ret'.inst = i /\ ret'.status = "ok"
                  /\ ret'.op \in {"train", "load_model"}
                  /\ ret'.op = "train" =>
                         /\ Trained(obj'[i])
                         /\ HasAttr(obj'[i], "clf_threshold")
                         /\ obj'[i].v.clf_threshold # None
      ]_vars

\* A model that was trained on standardized features has just failed to
\* load a corrupt file.
C10_Witness ==
    /\ ret.op = "load_model" /\ ret.status = "ValueError"
    /\ ret.arg.path = "junk.pkl"
    /\ Trained(obj[ret.inst])
    /\ obj[ret.inst].v.rescale

====
